---- MODULE Spec2Model ----
(***************************************************************************)
(* Model of packages/shell-server/shell-server.js: the attach listener     *)
(* (Server.onConnection) with its option negotiation, the handshake        *)
(* framing (readJSONFromStream), the evaluation pipeline                   *)
(* (wrappedDefaultEval on evalCommandPromise), the exit signaling and the  *)
(* accessor __ of Server.enableInteractiveMode, the history store          *)
(* (Server.initializeHistory) and the discovery record (Server.listen,     *)
(* disable).                                                               *)
(*                                                                         *)
(* Bytes are one-character strings.  The handshake alphabet abbreviates    *)
(* the JSON text of a header:                                              *)
(*   "{" "}"  the braces of an object                                      *)
(*   "K"      the member  "key": <the Server's key>                        *)
(*   "W"      the member  "key": <some other string>                       *)
(*   "E"      the member  "evaluateAndExit": {"command": ...}              *)
(*   "F"      the member  "evaluateAndExit": false                         *)
(*   "C" "I" "O" "G" "P" "T" "U" "D" "Z"                                   *)
(*            a member with a value of the client's for columns, input,    *)
(*            output, useGlobal, prompt, terminal, useColors,              *)
(*            ignoreUndefined, and for a field this file does not name     *)
(*   "N"      the text  null                                               *)
(*   "1"      a decimal digit                                              *)
(*   "x"      a byte of an input line                                      *)
(*   NL       the newline byte                                             *)
(***************************************************************************)
EXTENDS Integers, Sequences, FiniteSets, TLC

\* ------------------------------------------------------------------ bounds
MaxConns == 2
MaxEvals == 3
MaxHeaderLen == 2
MaxPayloadLen == 3
MaxStreamPayload == 2
MaxFileLen == 5
MaxHistoryLen == 7
MaxSessions == 2
MaxServers == 2

Conns == 1..MaxConns
Evals == 1..MaxEvals

NL == "\n"
EXITING_MESSAGE == "Shell exiting..."

\* ------------------------------------------------------- strings of bytes
RECURSIVE SplitFrom(_, _, _)
SplitFrom(s, i, cur) ==
  IF i > Len(s) THEN <<cur>>
  ELSE IF s[i] = NL THEN <<cur>> \o SplitFrom(s, i + 1, <<>>)
  ELSE SplitFrom(s, i + 1, Append(cur, s[i]))

\* String.prototype.split("\n"): always at least one fragment.
SplitNL(s) == SplitFrom(s, 1, <<>>)

RECURSIVE JoinNL(_)
\* Array.prototype.join("\n")
JoinNL(lines) ==
  IF Len(lines) = 0 THEN <<>>
  ELSE IF Len(lines) = 1 THEN lines[1]
  ELSE lines[1] \o <<NL>> \o JoinNL(Tail(lines))

\* ------------------------------------------------------------ JSON.parse
Members == {"K", "W", "E", "F", "C", "I", "O", "G", "P", "T", "U", "D", "Z"}

\* The properties of a handshake object the model tells apart.
Fields ==
  {"key", "columns", "input", "output", "useGlobal", "prompt", "terminal",
   "useColors", "ignoreUndefined", "evaluateAndExit", "other"}

MemberField(m) ==
  CASE m \in {"K", "W"} -> "key"
    [] m \in {"E", "F"} -> "evaluateAndExit"
    [] m = "C" -> "columns"
    [] m = "I" -> "input"
    [] m = "O" -> "output"
    [] m = "G" -> "useGlobal"
    [] m = "P" -> "prompt"
    [] m = "T" -> "terminal"
    [] m = "U" -> "useColors"
    [] m = "D" -> "ignoreUndefined"
    [] OTHER -> "other"

MemberValue(m) ==
  CASE m = "K" -> "match"
    [] m = "W" -> "other"
    [] m = "E" -> "command"
    [] m = "F" -> "falsy"
    [] OTHER -> "client"

\* An object without properties.
NoOptions == [f \in Fields |-> "absent"]

RECURSIVE ParseMembers(_, _)
\* The members of an object text, left to right: a repeated name keeps the
\* last value.
ParseMembers(s, obj) ==
  IF Len(s) = 0 THEN obj
  ELSE ParseMembers(Tail(s), [obj EXCEPT ![MemberField(Head(s))] = MemberValue(Head(s))])

RECURSIVE LastKey(_)
\* A repeated member name keeps the last value (JSON.parse).
LastKey(s) ==
  IF Len(s) = 0 THEN "absent"
  ELSE IF s[Len(s)] = "K" THEN "match"
  ELSE IF s[Len(s)] = "W" THEN "other"
  ELSE LastKey(SubSeq(s, 1, Len(s) - 1))

IsObjectText(s) ==
  /\ Len(s) >= 2
  /\ s[1] = "{"
  /\ s[Len(s)] = "}"
  /\ \A i \in 2..(Len(s) - 1) : s[i] \in Members

IsNumberText(s) == Len(s) >= 1 /\ \A i \in 1..Len(s) : s[i] = "1"

SyntaxError == [type |-> "SyntaxError"]

\* JSON.parse(dataSoFar): the parsed value, or SyntaxError when it throws.
JSONParse(s) ==
  IF s = <<"N">> THEN [type |-> "null"]
  ELSE IF IsNumberText(s) THEN [type |-> "number", digits |-> Len(s)]
  ELSE IF IsObjectText(s)
    THEN LET fields == ParseMembers(SubSeq(s, 2, Len(s) - 1), NoOptions)
         IN [type |-> "object",
             key |-> LastKey(SubSeq(s, 2, Len(s) - 1)),
             evaluateAndExit |-> fields.evaluateAndExit = "command",
             fields |-> fields]
  ELSE SyntaxError

\* ---------------------------------------------- readJSONFromStream.onData
RECURSIVE OnDataLoop(_, _)
\* The while loop of onData over the fragments of one chunk: the fragments
\* are appended to dataSoFar one by one, a SyntaxError means "need more";
\* on the first parse the fragments still queued are joined and written to
\* the pass-through stream.
OnDataLoop(soFar, lines) ==
  IF Len(lines) = 0
    THEN [parsed |-> FALSE, dataSoFar |-> soFar, json |-> SyntaxError, rest |-> <<>>]
  ELSE LET acc == soFar \o Head(lines)
           json == JSONParse(acc)
       IN IF json = SyntaxError
            THEN OnDataLoop(acc, Tail(lines))
            ELSE [parsed |-> TRUE, dataSoFar |-> acc, json |-> json,
                  rest |-> JoinNL(Tail(lines))]

onData(soFar, buffer) == OnDataLoop(soFar, SplitNL(buffer))

\* ------------------------------------------------------------------ state
VARIABLES
  conn,        \* per connection: the socket, the closure variables of
               \* onConnection and readJSONFromStream, the REPL options
  evals,       \* per evaluation submitted to wrappedDefaultEval
  microtasks,  \* the promise job queue: reactions not yet run
  started,     \* the evaluations whose defaultEval call has begun, in order
  draining,    \* a promise job has run and the queue is not yet empty
  procAlive,   \* the host process has not died of an uncaught exception
  client,      \* the framing client: its header, its payload, and the
               \* bytes of header, newline, payload it has yet to send
  context      \* the shared context (global): the session whose REPL the
               \* accessor __ reads and writes, 0 while __ is not defined;
               \* and the evaluation whose value is the most recent result

connVars ==
  <<conn, evals, microtasks, started, draining, procAlive, client, context>>

VARIABLES
  historyFile, \* the bytes of <shellDir>/history
  session,     \* per interactive session: what initializeHistory holds
  accepted     \* the non-blank lines the sessions' front ends accepted
               \* before their exit, in order

histVars == <<historyFile, session, accepted>>

VARIABLES
  infoFile,    \* <shellDir>/info.json: absent, or the record it holds
  server,      \* per Server: how far its listen() has come
  shell,       \* whether disable(shellDir) has written its record
  lastRead     \* what a client last read from info.json

infoVars == <<infoFile, server, shell, lastRead>>

vars == <<connVars, histVars, infoVars>>

NoHeader == [type |-> "none"]

NoClient == [header |-> <<>>, payload |-> <<>>, toSend |-> <<>>]

\* A connection the server has not accepted yet.
NoConn ==
  [sock |-> "none",          \* none | open | ended (end() called) | closed
   socket |-> FALSE,         \* onConnection's variable socket is non-null
   timeout |-> "none",       \* none | pending | fired | cleared
   listeners |-> {},         \* readJSONFromStream's listeners on the socket
   closeGuard |-> FALSE,     \* onConnection's own close listener
   finished |-> FALSE,
   dataSoFar |-> <<>>,
   piped |-> FALSE,          \* inputStream.pipe(outputStream) was called
   outputStream |-> <<>>,    \* every byte written to the pass-through
   extracted |-> 0,          \* JSON values onData parsed out of the stream
   callbacks |-> 0,          \* calls of readJSONFromStream's callback
   callbackSaw |-> {},       \* the listeners attached when it was called
   header |-> NoHeader,      \* the value the callback received
   hsError |-> FALSE,        \* the callback received an error
   written |-> <<>>,         \* what this file wrote to the socket
   ends |-> 0,               \* calls of end() on the socket by this file
   repl |-> FALSE,           \* startREPL ran: a REPL reads the pass-through
   options |-> NoOptions,    \* the options startREPL received
   output |-> FALSE,         \* options.output is non-null
   interactive |-> FALSE,    \* enableInteractiveMode ran
   consumed |-> 0,           \* bytes of the pass-through the REPL has read
   last |-> 0,               \* repl.last: the evaluation whose value it is,
                             \* 0 for undefined
   exited |-> FALSE]         \* the REPL emitted exit

\* state: none | queued (the .then reaction is in the job queue) | suspended
\* (defaultEval began and yielded) | rejected (the .catch reaction is in the
\* job queue) | settled.  outcome: how defaultEval ended: value | error
\* (both through the callback) | thrown.
NoEval == [state |-> "none", conn |-> 0, kind |-> "none", calls |-> 0,
           outcome |-> "none", val |-> "none"]

\* The value of an evaluation: one that has a JSON text, or one that has
\* none.  Only the one-shot callback serializes it.
Values == {"json", "circular"}
ValuesOf(kind) == IF kind = "oneshot" THEN Values ELSE {"json"}

NumSubmitted == Cardinality({e \in Evals : evals[e].state # "none"})

\* ------------------------------------------------------- Server.onConnection
\* socket.end(message): the message is written and the writable side ends.
EndSocket(cn, msg) ==
  [cn EXCEPT !.written = Append(@, msg),
             !.ends = @ + 1,
             !.sock = IF @ = "open" THEN "ended" ELSE @]

\* options.key of a parsed header that is not null; undefined ("absent")
\* for a value that is no object.
KeyOf(json) == IF json.type = "object" THEN json.key ELSE "absent"

\* The fields _.defaults fills in.
DefaultFields == {"prompt", "terminal", "useColors", "ignoreUndefined"}

\* onConnection from "delete options.key" to the call of startREPL: key and
\* columns deleted, the immutable options set, the defaults filled in, the
\* prompt blanked for evaluateAndExit.  In the first variant the client's
\* useGlobal survives.
NegotiateKeepUseGlobal(fields, socket) ==
  LET deleted == [fields EXCEPT !.key = "absent", !.columns = "absent"]
      extended == [deleted EXCEPT !.input = "replInputSocket",
                                  !.output = IF socket THEN "socket" ELSE "null"]
      defaulted == [f \in Fields |->
                      IF f \in DefaultFields /\ extended[f] = "absent"
                        THEN "default" ELSE extended[f]]
  IN IF defaulted.evaluateAndExit \notin {"absent", "falsy"}
       THEN [defaulted EXCEPT !.prompt = "blank"]
       ELSE defaulted

Negotiate(fields, socket) ==
  LET deleted == [fields EXCEPT !.key = "absent", !.columns = "absent"]
      extended == [deleted EXCEPT !.input = "replInputSocket",
                                  !.useGlobal = "false",
                                  !.output = IF socket THEN "socket" ELSE "null"]
      defaulted == [f \in Fields |->
                      IF f \in DefaultFields /\ extended[f] = "absent"
                        THEN "default" ELSE extended[f]]
  IN IF defaulted.evaluateAndExit \notin {"absent", "falsy"}
       THEN [defaulted EXCEPT !.prompt = "blank"]
       ELSE defaulted

\* Server.startREPL: a close listener on options.output, then a REPL on
\* options.input (the pass-through) and options.output (the socket).
startREPL(cn, options) ==
  [cn EXCEPT !.repl = TRUE, !.output = TRUE, !.options = options]

\* Server.enableInteractiveMode: the exit and process-exit listeners.
enableInteractiveMode(cn) == [cn EXCEPT !.interactive = TRUE]

\* clearTimeout(timeout): a timer that has not fired never will.  The first
\* variant leaves the timer alone.
clearTimeoutSkipped(cn) == cn

clearTimeout(cn) ==
  [cn EXCEPT !.timeout = IF @ = "pending" THEN "cleared" ELSE @]

\* The callback onConnection hands to readJSONFromStream.  The result names
\* the connection afterwards, whether the one-shot command was submitted to
\* _wrappedDefaultEval, and whether the callback threw (options.key of null;
\* options.output.on in startREPL when socket is null).
Callback(cn0, error, json) ==
  LET cn == [clearTimeout(cn0) EXCEPT
                        !.callbacks = @ + 1,
                        !.callbackSaw = cn0.listeners,
                        !.header = json,
                        !.hsError = error]
  IN IF error
       THEN [cn |-> [cn EXCEPT !.socket = FALSE], submit |-> FALSE, throws |-> FALSE]
     ELSE IF json.type = "null"
       THEN [cn |-> cn, submit |-> FALSE, throws |-> TRUE]
     ELSE IF KeyOf(json) # "match"
       THEN [cn |-> IF cn.socket THEN EndSocket(cn, EXITING_MESSAGE) ELSE cn,
             submit |-> FALSE, throws |-> FALSE]
     ELSE IF ~cn.socket
       THEN [cn |-> cn, submit |-> FALSE, throws |-> TRUE]
     ELSE IF json.evaluateAndExit
       THEN [cn |-> startREPL(cn, Negotiate(json.fields, cn.socket)),
             submit |-> TRUE, throws |-> FALSE]
     ELSE [cn |-> enableInteractiveMode(startREPL(cn, Negotiate(json.fields, cn.socket))),
           submit |-> FALSE, throws |-> FALSE]

\* readJSONFromStream.finish: single fire, the three listeners removed, then
\* the callback.  The variant below leaves the error listener attached.
finishKeepErrorListener(cn, error, json) ==
  IF cn.finished
    THEN [cn |-> cn, submit |-> FALSE, throws |-> FALSE]
    ELSE Callback([cn EXCEPT !.finished = TRUE, !.listeners = @ \ {"data", "close"}],
                  error, json)

finish(cn, error, json) ==
  IF cn.finished
    THEN [cn |-> cn, submit |-> FALSE, throws |-> FALSE]
    ELSE Callback([cn EXCEPT !.finished = TRUE, !.listeners = {}], error, json)

\* ------------------------------------------------------ wrappedDefaultEval
\* evalCommandPromise is resolved and never reassigned, so .then(...) queues
\* its reaction at once; the .catch(callback) reaction waits for the promise
\* .then returned.
wrappedDefaultEvalNewestFirst(c, kind) ==
  LET e == NumSubmitted + 1
  IN /\ e \in Evals
     /\ evals' = [evals EXCEPT ![e] = [NoEval EXCEPT !.state = "queued",
                                                     !.conn = c,
                                                     !.kind = kind]]
     /\ microtasks' = <<[job |-> "then", e |-> e]>> \o microtasks

wrappedDefaultEval(c, kind) ==
  LET e == NumSubmitted + 1
  IN /\ e \in Evals
     /\ evals' = [evals EXCEPT ![e] = [NoEval EXCEPT !.state = "queued",
                                                     !.conn = c,
                                                     !.kind = kind]]
     /\ microtasks' = Append(microtasks, [job |-> "then", e |-> e])

\* The process "exit" listeners enableInteractiveMode installed, one per
\* interactive session: options.output.end(), and the banner as well in the
\* variant below.
ProcessExitListenersWithBanner(cs) ==
  [c \in DOMAIN cs |->
     IF cs[c].interactive /\ cs[c].output
       THEN [cs[c] EXCEPT !.written = Append(@, EXITING_MESSAGE),
                          !.ends = @ + 1,
                          !.sock = IF @ = "open" THEN "ended" ELSE @]
       ELSE cs[c]]

ProcessExitListeners(cs) ==
  [c \in DOMAIN cs |->
     IF cs[c].interactive /\ cs[c].output
       THEN [cs[c] EXCEPT !.ends = @ + 1,
                          !.sock = IF @ = "open" THEN "ended" ELSE @]
       ELSE cs[c]]

\* Object.defineProperty(repl.context, "__", ...) of enableInteractiveMode:
\* repl.context is global, and the accessor now reads and writes the last of
\* the REPL of session c.
defineProperty(ctx, c) == [ctx EXCEPT !.binding = c]

\* The rest of an event handler that ran finish: the connection is updated,
\* the one-shot command submitted, and an exception that leaves the handler
\* is uncaught: it ends the process, which emits "exit", unless the host
\* handles it.
AfterHandler(c, r) ==
  /\ IF r.submit
       THEN wrappedDefaultEval(c, "oneshot")
       ELSE UNCHANGED <<evals, microtasks>>
  /\ IF r.throws
       THEN \/ /\ procAlive' = TRUE
               /\ conn' = [conn EXCEPT ![c] = r.cn]
            \/ /\ procAlive' = FALSE
               /\ conn' = ProcessExitListeners([conn EXCEPT ![c] = r.cn])
       ELSE /\ conn' = [conn EXCEPT ![c] = r.cn]
            /\ UNCHANGED procAlive
  /\ context' = IF r.cn.interactive /\ ~conn[c].interactive
                  THEN defineProperty(context, c)
                  ELSE context
  /\ UNCHANGED <<started, draining>>

\* ------------------------------------------------------------ idle parts
NoSession ==
  [historyFd |-> "none",     \* none | open | closed (-1)
   history |-> <<>>,         \* rli.history as initializeHistory left it
   read |-> <<>>,            \* the bytes readFileSync returned
   earlier |-> <<>>,         \* the lines accepted before this session began
   exited |-> FALSE,         \* the REPL emitted exit
   closes |-> 0,             \* calls of fs.closeSync(historyFd)
   late |-> FALSE]           \* a line event came after the exit

HistIdle ==
  /\ historyFile = <<>>
  /\ session = [s \in 1..MaxSessions |-> NoSession]
  /\ accepted = <<>>

NoServer == [at |-> "new", afterDisable |-> FALSE]

Absent == [status |-> "absent"]

NoRead == [record |-> Absent, afterDisable |-> FALSE]

InfoIdle ==
  /\ infoFile = Absent
  /\ server = [s \in 1..MaxServers |-> NoServer]
  /\ shell = "enabled"
  /\ lastRead = NoRead

\* A new event-loop turn: the process runs and no promise job is pending.
Turn == procAlive /\ microtasks = <<>>

\* net.createServer's listener: onConnection(socket) up to its return.
Accept(c) ==
  /\ Turn
  /\ conn[c].sock = "none"
  /\ \A d \in Conns : d < c => conn[d].sock # "none"
  /\ conn' = [conn EXCEPT ![c] = [NoConn EXCEPT !.sock = "open",
                                                !.socket = TRUE,
                                                !.closeGuard = TRUE,
                                                !.timeout = "pending",
                                                !.listeners = {"data", "error", "close"}]]
  /\ UNCHANGED <<evals, microtasks, started, draining, procAlive, client, context>>
  /\ UNCHANGED <<histVars, infoVars>>

\* A data event on the socket: onData while the handshake is read, the pipe
\* into the pass-through afterwards.  Without either listener the bytes are
\* dropped.
DataEvent(c, buffer) ==
  LET cn == conn[c]
      r == onData(cn.dataSoFar, buffer)
  IN /\ Turn
     /\ cn.sock \in {"open", "ended"}
     /\ IF "data" \in cn.listeners
          THEN IF r.parsed
                 THEN /\ Len(r.rest) <= MaxPayloadLen
                      /\ AfterHandler(c, finish([cn EXCEPT !.dataSoFar = r.dataSoFar,
                                                           !.extracted = @ + 1,
                                                           !.outputStream = r.rest,
                                                           !.piped = TRUE],
                                                FALSE, r.json))
                 ELSE /\ Len(r.dataSoFar) <= MaxHeaderLen
                      /\ conn' = [conn EXCEPT ![c].dataSoFar = r.dataSoFar]
                      /\ UNCHANGED <<evals, microtasks, started, draining, procAlive, context>>
          ELSE /\ cn.piped
               /\ Len(cn.outputStream) + Len(buffer) <= MaxPayloadLen
               /\ conn' = [conn EXCEPT ![c].outputStream = @ \o buffer]
               /\ UNCHANGED <<evals, microtasks, started, draining, procAlive, context>>

\* The close event: onConnection's listener first (socket = null), then
\* readJSONFromStream's onClose if still attached, then startREPL's listener
\* (options.output = null).  The variant below lacks onConnection's listener.
CloseListenersKeepSocket(cn0) ==
  LET cn1 == cn0
      r == IF "close" \in cn1.listeners
             THEN finish(cn1, TRUE, NoHeader)
             ELSE [cn |-> cn1, submit |-> FALSE, throws |-> FALSE]
  IN [r EXCEPT !.cn = [r.cn EXCEPT !.output = FALSE, !.sock = "closed"]]

CloseListeners(cn0) ==
  LET cn1 == [cn0 EXCEPT !.socket = FALSE]
      r == IF "close" \in cn1.listeners
             THEN finish(cn1, TRUE, NoHeader)
             ELSE [cn |-> cn1, submit |-> FALSE, throws |-> FALSE]
  IN [r EXCEPT !.cn = [r.cn EXCEPT !.output = FALSE, !.sock = "closed"]]

SocketClose(c) ==
  /\ Turn
  /\ conn[c].sock \in {"open", "ended"}
  /\ AfterHandler(c, CloseListeners(conn[c]))
  /\ UNCHANGED <<client, histVars, infoVars>>

\* The error event, which destroys the socket (the close event follows):
\* readJSONFromStream's finish is the only error listener this file
\* installs, and an error event without a listener is thrown.  If that ends
\* the process, the close event is never emitted.
SocketError(c) ==
  LET cn == conn[c]
      r == IF "error" \in cn.listeners
             THEN finish(cn, TRUE, NoHeader)
             ELSE [cn |-> cn, submit |-> FALSE, throws |-> TRUE]
      q == CloseListeners(r.cn)
  IN /\ Turn
     /\ cn.sock \in {"open", "ended"}
     /\ IF r.throws
          THEN /\ \/ /\ procAlive' = TRUE
                     /\ conn' = [conn EXCEPT ![c] = q.cn]
                  \/ /\ procAlive' = FALSE
                     /\ conn' = ProcessExitListeners([conn EXCEPT ![c] = r.cn])
               /\ UNCHANGED <<evals, microtasks, started, draining, context>>
          ELSE AfterHandler(c, q)
     /\ UNCHANGED <<client, histVars, infoVars>>

\* The 1000 ms timer of onConnection.
TimerFire(c) ==
  LET cn == [conn[c] EXCEPT !.timeout = "fired"]
  IN /\ Turn
     /\ conn[c].timeout = "pending"
     /\ conn' = [conn EXCEPT ![c] =
                   IF cn.socket
                     THEN EndSocket([cn EXCEPT !.listeners = @ \ {"data"}],
                                    EXITING_MESSAGE)
                     ELSE cn]
     /\ UNCHANGED <<evals, microtasks, started, draining, procAlive, client, context>>
     /\ UNCHANGED <<histVars, infoVars>>

\* The index of the first newline of s after position k, 0 if there is none.
NextNL(s, k) ==
  IF \E i \in (k + 1)..Len(s) : s[i] = NL
    THEN CHOOSE i \in (k + 1)..Len(s) :
           s[i] = NL /\ \A j \in (k + 1)..(i - 1) : s[j] # NL
    ELSE 0

\* The REPL started by startREPL reads the next line of options.input and
\* hands a line that is not empty to repl.eval, which is wrappedDefaultEval.
\* Lines of one chunk, and the lines already in the pass-through when the
\* REPL starts, are read before any promise job runs.
ReplLine(c) ==
  LET cn == conn[c]
      k == NextNL(cn.outputStream, cn.consumed)
  IN /\ procAlive
     /\ ~draining
     /\ cn.repl
     /\ ~cn.exited
     /\ k > 0
     /\ conn' = [conn EXCEPT ![c].consumed = k]
     /\ IF k > cn.consumed + 1
          THEN wrappedDefaultEval(c, "repl")
          ELSE UNCHANGED <<evals, microtasks>>
     /\ UNCHANGED <<started, draining, procAlive, client, context>>
     /\ UNCHANGED <<histVars, infoVars>>

\* The REPL emits exit (.exit, or its input ended): the listener of
\* enableInteractiveMode writes the banner and ends the output.
ReplExit(c) ==
  LET cn == [conn[c] EXCEPT !.exited = TRUE]
  IN /\ Turn
     /\ conn[c].repl
     /\ ~conn[c].exited
     /\ conn' = [conn EXCEPT ![c] =
                   IF cn.interactive /\ cn.output
                     THEN EndSocket(cn, EXITING_MESSAGE)
                     ELSE cn]
     /\ UNCHANGED <<evals, microtasks, started, draining, procAlive, client, context>>
     /\ UNCHANGED <<histVars, infoVars>>

\* The host process exits (process.exit(0) of the reload command, or the
\* host's own shutdown): "exit" is emitted and no event is handled after it.
ProcessExit ==
  /\ procAlive
  /\ procAlive' = FALSE
  /\ conn' = ProcessExitListeners(conn)
  /\ UNCHANGED <<evals, microtasks, started, draining, client, context>>
  /\ UNCHANGED <<histVars, infoVars>>

\* ------------------------------------------------------ completion callbacks
RESULT_MESSAGE == "{result}"
ERROR_MESSAGE == "{error,code:1}"

\* The callback onConnection passes for evaluateAndExit: JSON.stringify
\* throws on a value that has no JSON text (a circular structure, a BigInt).
OneShotCallbackSwapped(cn, error, val) ==
  IF ~cn.socket THEN [cn |-> cn, throws |-> FALSE]
  ELSE IF ~error /\ val = "circular" THEN [cn |-> cn, throws |-> TRUE]
  ELSE IF error THEN [cn |-> EndSocket(cn, RESULT_MESSAGE), throws |-> FALSE]
  ELSE [cn |-> EndSocket(cn, ERROR_MESSAGE), throws |-> FALSE]

OneShotCallback(cn, error, val) ==
  IF ~cn.socket THEN [cn |-> cn, throws |-> FALSE]
  ELSE IF error THEN [cn |-> EndSocket(cn, ERROR_MESSAGE), throws |-> FALSE]
  ELSE IF val = "circular" THEN [cn |-> cn, throws |-> TRUE]
  ELSE [cn |-> EndSocket(cn, RESULT_MESSAGE), throws |-> FALSE]

\* The callback of an evaluation: the one above, or the REPL's own, which
\* keeps the value of a successful evaluation as repl.last, prints through
\* the REPL and writes nothing from this file.
CallCallback(e, error, val) ==
  IF evals[e].kind = "oneshot"
    THEN OneShotCallback(conn[evals[e].conn], error, val)
    ELSE [cn |-> [conn[evals[e].conn] EXCEPT !.last = IF error THEN @ ELSE e],
          throws |-> FALSE]

\* The setter of __, run when the evaluated code of e assigns to it: the
\* value goes to the last of the REPL the accessor is bound to.
SetLast(cs, binding, e) ==
  [c \in DOMAIN cs |-> IF c = binding THEN [cs[c] EXCEPT !.last = e] ELSE cs[c]]

\* The job queue after a reaction of evaluation e ended: a reaction that
\* threw rejects the promise .then returned, which queues .catch(callback).
QueueAfter(queue, e, threw) ==
  IF threw THEN Append(queue, [job |-> "catch", e |-> e]) ELSE queue

\* defaultEval(code, context, file, callback) from its start, or from where
\* it resumed, to its end: it calls the callback with a value or an error,
\* or it throws; an exception of the callback leaves defaultEval too.
EvalEnds(e, queue) ==
  \/ \E error \in BOOLEAN, val \in ValuesOf(evals[e].kind),
        assigns \in (IF evals[e].kind = "repl" /\ context.binding # 0
                       THEN BOOLEAN ELSE {FALSE}) :
       LET r == CallCallback(e, error, val)
           c == evals[e].conn
           success == evals[e].kind = "repl" /\ ~error
           set == success /\ assigns
       IN /\ evals' = [evals EXCEPT ![e].state = IF r.throws THEN "rejected" ELSE "settled",
                                    ![e].calls = @ + 1,
                                    ![e].outcome = IF error THEN "error" ELSE "value",
                                    ![e].val = IF error THEN "none" ELSE val]
          /\ conn' = [(IF set THEN SetLast(conn, context.binding, e) ELSE conn)
                        EXCEPT ![c] = r.cn]
          /\ context' = IF set \/ (success /\ conn[c].interactive)
                          THEN [context EXCEPT !.recent = e]
                          ELSE context
          /\ microtasks' = QueueAfter(queue, e, r.throws)
  \/ /\ evals' = [evals EXCEPT ![e].state = "rejected", ![e].outcome = "thrown"]
     /\ microtasks' = QueueAfter(queue, e, TRUE)
     /\ UNCHANGED <<conn, context>>

\* The reaction () => defaultEval(code, context, file, callback).
RunThen(e, rest) ==
  /\ started' = Append(started, e)
  /\ \/ EvalEnds(e, rest)
     \/ /\ evals' = [evals EXCEPT ![e].state = "suspended"]
        /\ microtasks' = rest
        /\ UNCHANGED <<conn, context>>

\* The reaction .catch(callback): callback(reason).  What it throws is an
\* unhandled rejection.
RunCatch(e, rest) ==
  /\ evals' = [evals EXCEPT ![e].state = "settled", ![e].calls = @ + 1]
  /\ conn' = [conn EXCEPT ![evals[e].conn] = CallCallback(e, TRUE, "none").cn]
  /\ microtasks' = rest
  /\ UNCHANGED <<started, context>>

\* The next promise job; the queue is emptied before the next event.
RunJob(job, rest) ==
  /\ procAlive
  /\ IF job.job = "then" THEN RunThen(job.e, rest) ELSE RunCatch(job.e, rest)
  /\ draining' = (microtasks' # <<>>)
  /\ UNCHANGED <<procAlive, client, histVars, infoVars>>

RunMicrotaskNewestFirst ==
  /\ microtasks # <<>>
  /\ RunJob(microtasks[Len(microtasks)], SubSeq(microtasks, 1, Len(microtasks) - 1))

RunMicrotask ==
  /\ microtasks # <<>>
  /\ RunJob(Head(microtasks), Tail(microtasks))

\* An evaluation that yielded (a Fiber, an awaited promise) resumes and ends.
Resume(e) ==
  /\ Turn
  /\ evals[e].state = "suspended"
  /\ EvalEnds(e, microtasks)
  /\ draining' = FALSE
  /\ UNCHANGED <<started, procAlive, client, histVars, infoVars>>

\* ---------------------------------------------------------- specification
\* What a client sends while the server reads the handshake: whole headers
\* (the key right, wrong or absent, a one-shot command with and without
\* input behind it, null, a number), a header in two chunks, and a line
\* that is no JSON text.
HandshakeChunks ==
  { <<"{", "K", "}", NL>>, <<"{", "W", "}", NL>>, <<"{", "}", NL>>,
    <<"{", "K", "E", "}", NL>>, <<"{", "K", "E", "}", NL, "x", NL>>,
    <<"N", NL>>, <<"1", NL>>, <<"{", "K">>, <<"}", NL>>, <<"x", NL>> }

\* What a client sends afterwards: input lines.
PayloadChunks == { <<"x", NL>> }

SocketData(c) ==
  /\ \E buffer \in (IF "data" \in conn[c].listeners
                      THEN HandshakeChunks ELSE PayloadChunks) :
       DataEvent(c, buffer)
  /\ UNCHANGED <<client, histVars, infoVars>>

\* No connection yet, no evaluation, an empty job queue.
ConnIdle ==
  /\ conn = [c \in Conns |-> NoConn]
  /\ evals = [e \in Evals |-> NoEval]
  /\ microtasks = <<>>
  /\ started = <<>>
  /\ draining = FALSE
  /\ procAlive = TRUE
  /\ context = [binding |-> 0, recent |-> 0]

Init ==
  /\ ConnIdle
  /\ client = NoClient
  /\ HistIdle
  /\ InfoIdle

Next ==
  \/ \E c \in Conns : Accept(c)
  \/ \E c \in Conns : SocketData(c)
  \/ \E c \in Conns : SocketClose(c)
  \/ \E c \in Conns : SocketError(c)
  \/ \E c \in Conns : TimerFire(c)
  \/ \E c \in Conns : ReplLine(c)
  \/ \E c \in Conns : ReplExit(c)
  \/ RunMicrotask
  \/ \E e \in Evals : Resume(e)
  \/ ProcessExit

Spec == Init /\ [][Next]_vars

\* ------------------------------------------------- the framing specification
\* readJSONFromStream under every chunking: one client sends a header that
\* is a JSON object, a newline and a payload, cut into chunks anywhere.
FrameHeaders == { <<"{", "K", "}">>, <<"{", "W", "}">>, <<"{", "}">> }

RECURSIVE BytesUpTo(_)
BytesUpTo(n) ==
  IF n = 0 THEN { <<>> }
  ELSE BytesUpTo(n - 1) \cup
       { Append(s, b) : s \in { t \in BytesUpTo(n - 1) : Len(t) = n - 1 },
                        b \in {"x", NL} }

FramePayloads == BytesUpTo(MaxStreamPayload)

InitFrame ==
  /\ ConnIdle
  /\ HistIdle
  /\ InfoIdle
  /\ \E h \in FrameHeaders, p \in FramePayloads :
       client = [header |-> h, payload |-> p, toSend |-> h \o <<NL>> \o p]

\* The socket's next data event carries the next n bytes of the client.
FrameData ==
  \E n \in 1..Len(client.toSend) :
    /\ DataEvent(1, SubSeq(client.toSend, 1, n))
    /\ client' = [client EXCEPT !.toSend = SubSeq(@, n + 1, Len(@))]
    /\ UNCHANGED <<histVars, infoVars>>

FrameAccept == Accept(1)

NextFrame == FrameAccept \/ FrameData

SpecFrame == InitFrame /\ [][NextFrame]_vars

\* ------------------------------------------- the negotiation specification
\* Option negotiation for every handshake object: one client sends a header
\* with any key, any combination of the other members, evaluateAndExit once
\* or twice, and a newline, cut into chunks anywhere.
RECURSIVE SubSequences(_)
\* The sequences that keep some of the elements of s, in the order of s.
SubSequences(s) ==
  IF Len(s) = 0 THEN { <<>> }
  ELSE LET rest == SubSequences(Tail(s))
       IN rest \cup { <<Head(s)>> \o t : t \in rest }

OptionHeaders ==
  { <<"{">> \o k \o e \o m \o <<"}">> :
      k \in { <<>>, <<"K">>, <<"W">> },
      e \in { <<>>, <<"E">>, <<"F">>, <<"E", "F">>, <<"F", "E">> },
      m \in SubSequences(<<"C", "I", "O", "G", "P", "T", "U", "D", "Z">>) }

InitOpts ==
  /\ ConnIdle
  /\ HistIdle
  /\ InfoIdle
  /\ \E h \in OptionHeaders :
       client = [header |-> h, payload |-> <<>>, toSend |-> h \o <<NL>>]

SpecOpts == InitOpts /\ [][NextFrame]_vars

\* ---------------------------------------------- Server.initializeHistory
\* /\S/.test(line): some byte of the line is not white space.
NonBlank(line) == \E i \in 1..Len(line) : line[i] # " "

RECURSIVE LoadHistoryOldestFirst(_, _, _)
LoadHistoryOldestFirst(historyLines, history, seenLines) ==
  IF Len(historyLines) = 0 THEN history
  ELSE LET line == Head(historyLines)
           rest == Tail(historyLines)
       IN IF line # <<>> /\ NonBlank(line) /\ line \notin seenLines
            THEN LoadHistoryOldestFirst(rest, Append(history, line), seenLines \cup {line})
            ELSE LoadHistoryOldestFirst(rest, history, seenLines)

RECURSIVE LoadHistory(_, _, _)
\* The while loop: historyLines.pop() until it is empty; a line that is not
\* blank and not seen before is pushed onto rli.history.
LoadHistory(historyLines, history, seenLines) ==
  IF Len(historyLines) = 0 THEN history
  ELSE LET line == historyLines[Len(historyLines)]
           rest == SubSeq(historyLines, 1, Len(historyLines) - 1)
       IN IF line # <<>> /\ NonBlank(line) /\ line \notin seenLines
            THEN LoadHistory(rest, Append(history, line), seenLines \cup {line})
            ELSE LoadHistory(rest, history, seenLines)

\* initializeHistory of a new session: the file is opened "a+", read and
\* split, and the recall list rli.history, empty in a new REPL, filled.
InitializeHistory(s) ==
  /\ session[s].historyFd = "none"
  /\ \A t \in 1..MaxSessions : t < s => session[t].historyFd # "none"
  /\ session' = [session EXCEPT ![s] =
                   [NoSession EXCEPT !.historyFd = "open",
                                     !.history = LoadHistory(SplitNL(historyFile), <<>>, {}),
                                     !.read = historyFile,
                                     !.earlier = accepted]]
  /\ UNCHANGED <<historyFile, accepted, connVars, infoVars>>

HistoryInputs == { <<"a">>, <<"b">>, <<" ">>, <<>> }

\* The bytes of the lines q, each followed by a newline.
RECURSIVE LinesBytes(_)
LinesBytes(q) ==
  IF Len(q) = 0 THEN <<>> ELSE Head(q) \o <<NL>> \o LinesBytes(Tail(q))

\* The line listener: a line that is not blank is appended while the
\* descriptor is not -1.  The first variant writes the line without the
\* newline.
HistoryLineNoNewline(s) ==
  \E line \in HistoryInputs :
    /\ session[s].historyFd # "none"
    /\ Len(historyFile) + Len(line) + 1 <= MaxHistoryLen
    /\ Len(LinesBytes(accepted)) + Len(line) + 1 <= MaxHistoryLen
    /\ historyFile' = IF session[s].historyFd = "open" /\ NonBlank(line)
                        THEN historyFile \o line
                        ELSE historyFile
    /\ accepted' = IF ~session[s].exited /\ NonBlank(line)
                     THEN Append(accepted, line)
                     ELSE accepted
    /\ session' = [session EXCEPT ![s].late = @ \/ session[s].exited]
    /\ UNCHANGED <<connVars, infoVars>>

HistoryLine(s) ==
  \E line \in HistoryInputs :
    /\ session[s].historyFd # "none"
    /\ Len(historyFile) + Len(line) + 1 <= MaxHistoryLen
    /\ Len(LinesBytes(accepted)) + Len(line) + 1 <= MaxHistoryLen
    /\ historyFile' = IF session[s].historyFd = "open" /\ NonBlank(line)
                        THEN historyFile \o line \o <<NL>>
                        ELSE historyFile
    /\ accepted' = IF ~session[s].exited /\ NonBlank(line)
                     THEN Append(accepted, line)
                     ELSE accepted
    /\ session' = [session EXCEPT ![s].late = @ \/ session[s].exited]
    /\ UNCHANGED <<connVars, infoVars>>

\* The exit listener, run when the REPL emits exit, which it does once:
\* closeSync, and -1 as the descriptor.  The first variant keeps the
\* descriptor.
HistoryExitKeepsFd(s) ==
  /\ session[s].historyFd # "none"
  /\ ~session[s].exited
  /\ session' = [session EXCEPT ![s].exited = TRUE,
                                 ![s].closes = @ + 1]
  /\ UNCHANGED <<historyFile, accepted, connVars, infoVars>>

HistoryExit(s) ==
  /\ session[s].historyFd # "none"
  /\ ~session[s].exited
  /\ session' = [session EXCEPT ![s].exited = TRUE,
                                 ![s].closes = @ + 1,
                                 ![s].historyFd = "closed"]
  /\ UNCHANGED <<historyFile, accepted, connVars, infoVars>>

HistoryBytes == {"a", "b", " ", NL}

RECURSIVE FilesUpTo(_)
FilesUpTo(n) ==
  IF n = 0 THEN { <<>> }
  ELSE FilesUpTo(n - 1) \cup
       { Append(f, b) : f \in { g \in FilesUpTo(n - 1) : Len(g) = n - 1 },
                        b \in HistoryBytes }

\* The history file is whatever earlier sessions, or the user, left there.
InitHist ==
  /\ ConnIdle
  /\ client = NoClient
  /\ InfoIdle
  /\ historyFile \in FilesUpTo(MaxFileLen)
  /\ session = [s \in 1..MaxSessions |-> NoSession]
  /\ accepted = <<>>

NextHist ==
  \/ \E s \in 1..MaxSessions : InitializeHistory(s)
  \/ \E s \in 1..MaxSessions : HistoryLine(s)
  \/ \E s \in 1..MaxSessions : HistoryExit(s)

SpecHist == InitHist /\ [][NextHist]_vars

\* ---------------------------------------------- the sessions specification
\* Sessions on a shellDir whose history file only sessions have written:
\* it is empty, or every line of it ends in a newline.
InitSessions ==
  /\ ConnIdle
  /\ client = NoClient
  /\ InfoIdle
  /\ historyFile \in { f \in FilesUpTo(MaxFileLen) : f = <<>> \/ f[Len(f)] = NL }
  /\ session = [s \in 1..MaxSessions |-> NoSession]
  /\ accepted = <<>>

SpecSessions == InitSessions /\ [][NextHist]_vars

\* ------------------------------------------------ Server.listen, disable
Servers == 1..MaxServers

\* The record listen() writes; Server s has key s and, once bound, the port
\* the operating system gave it, which no other listening socket has.
EnabledRecord(s) == [status |-> "enabled", port |-> s, key |-> s]

DisabledRecord == [status |-> "disabled"]

\* The enabled record an earlier process left behind.
StaleRecord == [status |-> "enabled", port |-> 0, key |-> 0]

\* listen(shellDir) -> new Server(shellDir).listen(): fs.unlink is issued.
Listen(s) ==
  /\ server[s].at = "new"
  /\ \A t \in Servers : t < s => server[t].at # "new"
  /\ server' = [server EXCEPT ![s] = [at |-> "unlinking",
                                       afterDisable |-> shell = "disabled"]]
  /\ UNCHANGED <<infoFile, shell, lastRead, connVars, histVars>>

\* fs.unlink(infoFile, ...) takes effect: the file is gone, if it was there.
Unlink(s) ==
  /\ server[s].at = "unlinking"
  /\ infoFile' = Absent
  /\ server' = [server EXCEPT ![s].at = "unlinked"]
  /\ UNCHANGED <<shell, lastRead, connVars, histVars>>

\* The callback of fs.unlink, whose error is ignored:
\* self.server.listen(0, "127.0.0.1", ...) is issued.  The first variant
\* writes the enabled record here already.
UnlinkCallbackPublishes(s) ==
  /\ server[s].at = "unlinked"
  /\ infoFile' = EnabledRecord(s)
  /\ server' = [server EXCEPT ![s].at = "binding"]
  /\ UNCHANGED <<shell, lastRead, connVars, histVars>>

UnlinkCallback(s) ==
  /\ server[s].at = "unlinked"
  /\ server' = [server EXCEPT ![s].at = "binding"]
  /\ UNCHANGED <<infoFile, shell, lastRead, connVars, histVars>>

\* The callback of server.listen: the socket listens and the enabled record
\* is written.
ListenCallback(s) ==
  /\ server[s].at = "binding"
  /\ infoFile' = EnabledRecord(s)
  /\ server' = [server EXCEPT ![s].at = "listening"]
  /\ UNCHANGED <<shell, lastRead, connVars, histVars>>

\* The error listener of net.createServer: binding failed, the stack is
\* printed and nothing is written.
ListenError(s) ==
  /\ server[s].at = "binding"
  /\ server' = [server EXCEPT ![s].at = "failed"]
  /\ UNCHANGED <<infoFile, shell, lastRead, connVars, histVars>>

\* disable(shellDir): writeFileSync of the disabled record.
disable ==
  /\ infoFile' = DisabledRecord
  /\ shell' = "disabled"
  /\ UNCHANGED <<server, lastRead, connVars, histVars>>

\* A shell client reads info.json.
ReadInfo ==
  /\ lastRead' = [record |-> infoFile, afterDisable |-> shell = "disabled"]
  /\ UNCHANGED <<infoFile, server, shell, connVars, histVars>>

InitInfo ==
  /\ ConnIdle
  /\ client = NoClient
  /\ HistIdle
  /\ infoFile \in {Absent, DisabledRecord, StaleRecord}
  /\ server = [s \in Servers |-> NoServer]
  /\ shell = "enabled"
  /\ lastRead = NoRead

NextInfo ==
  \/ \E s \in Servers : Listen(s)
  \/ \E s \in Servers : Unlink(s)
  \/ \E s \in Servers : UnlinkCallback(s)
  \/ \E s \in Servers : ListenCallback(s)
  \/ \E s \in Servers : ListenError(s)
  \/ disable
  \/ ReadInfo

SpecInfo == InitInfo /\ [][NextInfo]_vars

\* ------------------------------------------------------------------ claims
Begun(e) == \E i \in DOMAIN started : started[i] = e

EvalsOf(c) == {e \in Evals : evals[e].state # "none" /\ evals[e].conn = c}

Banner(c) == \E i \in DOMAIN conn[c].written : conn[c].written[i] = EXITING_MESSAGE

C2_AuthOutcome ==
  \A c \in Conns :
    conn[c].header # NoHeader =>
      IF KeyOf(conn[c].header) = "match"
        THEN conn[c].repl
        ELSE /\ conn[c].written = <<EXITING_MESSAGE>>
             /\ conn[c].sock \in {"ended", "closed"}
             /\ ~conn[c].repl
             /\ EvalsOf(c) = {}

\* C3 as claimed: once the deadline timer has fired on a connection without
\* a handshake, the banner was sent, the connection ended, and none of
\* readJSONFromStream's listeners is left on the socket.
C3_DeadlineReleasesAll ==
  \A c \in Conns :
    conn[c].timeout = "fired" =>
      /\ conn[c].written = <<EXITING_MESSAGE>>
      /\ conn[c].sock \in {"ended", "closed"}
      /\ conn[c].listeners = {}

\* C4 as claimed: when the client has sent header, newline and payload, in
\* whatever chunks, the callback has received the parsed header once and the
\* pass-through holds exactly the payload.
C4_FramingExact ==
  (client.header # <<>> /\ client.toSend = <<>>) =>
    /\ conn[1].callbacks = 1
    /\ conn[1].header = JSONParse(client.header)
    /\ conn[1].outputStream = client.payload

\* A connection whose accepted handshake contains evaluateAndExit.
OneShotConn(c) ==
  /\ conn[c].header.type = "object"
  /\ conn[c].header.key = "match"
  /\ conn[c].header.evaluateAndExit

\* The evaluation of its command has completed: the evaluator called the
\* callback, or threw and the .catch reaction has called it.
Completed(e) ==
  \/ evals[e].outcome \in {"value", "error"}
  \/ evals[e].outcome = "thrown" /\ evals[e].state = "settled"

C6_OneShotOnly ==
  \A c \in Conns :
    OneShotConn(c) =>
      /\ Cardinality(EvalsOf(c)) = 1
      /\ \A e \in EvalsOf(c) : evals[e].kind = "oneshot"
      /\ conn[c].consumed = 0

\* C9 as claimed: the callback of an evaluation is never invoked twice, and
\* has been invoked once when the evaluation's reactions have all run.
C9_ExactlyOnce ==
  \A e \in Evals :
    /\ evals[e].calls <= 1
    /\ evals[e].state = "settled" => evals[e].calls = 1

\* C10: evaluator invocations begin in the order of submission (evaluations
\* are numbered as they are submitted).
C10_Fifo ==
  \A i \in DOMAIN started, j \in DOMAIN started :
    i < j => started[i] < started[j]

\* C10 witness: three evaluations, not all of one connection, have begun.
C10_Witness ==
  /\ Len(started) = 3
  /\ \E e \in Evals : evals[e].conn # evals[1].conn

RECURSIVE Reverse(_)
Reverse(q) == IF Len(q) = 0 THEN <<>> ELSE Append(Reverse(Tail(q)), Head(q))

RECURSIVE LastOccurrences(_, _)
\* The lines that are not blank and do not occur again further down, in the
\* order of the file.
LastOccurrences(lines, i) ==
  IF i > Len(lines) THEN <<>>
  ELSE (IF NonBlank(lines[i]) /\ \A j \in (i + 1)..Len(lines) : lines[j] # lines[i]
          THEN <<lines[i]>> ELSE <<>>)
       \o LastOccurrences(lines, i + 1)

\* C8: after initializeHistory the recall list, read oldest to newest (it is
\* kept newest first), holds each distinct non-blank line of the file once,
\* at the place of its last occurrence.
C8_HistoryDedup ==
  \A s \in 1..MaxSessions :
    session[s].historyFd # "none" =>
      Reverse(session[s].history) = LastOccurrences(SplitNL(session[s].read), 1)

\* C8 witness: the file a, b, a loaded as b, a.
C8_Witness ==
  \E s \in 1..MaxSessions :
    /\ session[s].read = <<"a", NL, "b", NL, "a">>
    /\ Reverse(session[s].history) = << <<"b">>, <<"a">> >>

\* C7 as claimed, in its weakest reading: a read of info.json made after
\* disable wrote its record, every listen() having been called before that,
\* never observes "enabled".
C7_DisableFinal ==
  (lastRead.afterDisable /\ \A s \in Servers : ~server[s].afterDisable) =>
    lastRead.record.status # "enabled"

\* C11: on an interactive session this file writes to the socket only when
\* the REPL emits exit with the output still open, and then it writes the
\* banner and ends the output; when the process exits, the output of every
\* session still open is ended and nothing is written.
C11_ExitBanner ==
  [][\A c \in Conns :
       conn[c].interactive =>
         /\ (conn'[c].written # conn[c].written) =>
               (~conn[c].exited /\ conn'[c].exited /\ conn[c].output)
         /\ (~conn[c].exited /\ conn'[c].exited /\ conn[c].output) =>
               /\ conn'[c].written = Append(conn[c].written, EXITING_MESSAGE)
               /\ conn'[c].sock = "ended"
         /\ (procAlive /\ ~procAlive') =>
               /\ conn'[c].written = conn[c].written
               /\ conn[c].output => conn'[c].sock = "ended"]_vars

\* C11 witness: the process has exited, the output of an interactive session
\* whose REPL never emitted exit is ended, and no banner was written on it.
C11_Witness ==
  \E c \in Conns :
    /\ ~procAlive
    /\ conn[c].interactive
    /\ ~conn[c].exited
    /\ conn[c].sock = "ended"
    /\ conn[c].written = <<>>

\* A connection whose handshake object carried the Server's key and reached
\* startREPL.
Negotiated(c) ==
  /\ conn[c].repl
  /\ conn[c].header.type = "object"
  /\ conn[c].header.key = "match"

\* What C12 says of every field but the prompt: key and columns are gone,
\* input, output and useGlobal are the host's, every other field of the
\* client is kept, and a default stands only where the client sent nothing.
NegotiatedFields(c) ==
  LET sent == conn[c].header.fields
      options == conn[c].options
  IN /\ options.key = "absent"
     /\ options.columns = "absent"
     /\ options.input = "replInputSocket"
     /\ options.output = "socket"
     /\ options.useGlobal = "false"
     /\ options.other = sent.other
     /\ options.evaluateAndExit = sent.evaluateAndExit
     /\ \A f \in DefaultFields \ {"prompt"} :
          options[f] = IF sent[f] = "absent" THEN "default" ELSE sent[f]
     /\ options.prompt \in {"blank", IF sent.prompt = "absent" THEN "default" ELSE sent.prompt}

HandshakeOrCloseEvent(c) ==
  \/ conn'[c].callbacks > conn[c].callbacks
  \/ conn[c].timeout = "pending" /\ conn'[c].timeout = "fired"
  \/ conn[c].sock # "closed" /\ conn'[c].sock = "closed"

\* C13 as claimed: such an event on one connection leaves every other
\* connection as it was and the host process running.
C13_Isolation ==
  [][\A c \in Conns :
       HandshakeOrCloseEvent(c) =>
         /\ procAlive'
         /\ \A d \in Conns \ {c} : conn'[d] = conn[d]]_vars

\* C14: once the close event of a socket has fired, this file writes nothing
\* to it and does not end it, whatever runs afterwards: the deadline timer,
\* the completion of a one-shot evaluation, the REPL's exit, the process's.
C14_NoWriteAfterClose ==
  [][\A c \in Conns :
       conn[c].sock = "closed" =>
         /\ conn'[c].written = conn[c].written
         /\ conn'[c].ends = conn[c].ends]_vars

\* C14 witness: a one-shot evaluation completed with an error after its
\* socket had closed, and nothing was written.
C14_Witness ==
  \E e \in Evals :
    /\ evals[e].kind = "oneshot"
    /\ evals[e].outcome = "error"
    /\ evals[e].calls = 1
    /\ conn[evals[e].conn].sock = "closed"
    /\ conn[evals[e].conn].written = <<>>
    /\ conn[evals[e].conn].ends = 0

\* C15: whatever data, error and close events a socket has seen,
\* readJSONFromStream has called its callback at most once and extracted at
\* most one JSON value, and when it called the callback, with a value or
\* with an error, none of its three listeners was attached any more.
C15_SingleFire ==
  \A c \in Conns :
    /\ conn[c].callbacks <= 1
    /\ conn[c].extracted <= 1
    /\ conn[c].callbacks = 1 =>
         /\ conn[c].finished
         /\ conn[c].callbackSaw = {}
         /\ conn[c].listeners = {}

\* C15 witness: a handshake that failed on an error event after data had
\* arrived, the close event following; the callback ran once.
C15_Witness ==
  \E c \in Conns :
    /\ conn[c].callbacks = 1
    /\ conn[c].hsError
    /\ conn[c].dataSoFar # <<>>
    /\ conn[c].sock = "closed"

IsPrefix(p, q) == Len(p) <= Len(q) /\ SubSeq(q, 1, Len(p)) = p

\* C16: every non-blank line a session accepts before its exit is appended
\* to the history file, with its newline, in the step that accepts it; the
\* file only ever grows at its end; and the recall list a session loaded
\* holds every non-blank line accepted before that session began.
C16_HistoryPersists ==
  /\ [][/\ accepted' # accepted =>
             historyFile' = historyFile \o accepted'[Len(accepted')] \o <<NL>>
        /\ IsPrefix(historyFile, historyFile')]_vars
  /\ [](\A s \in 1..MaxSessions :
          \A i \in DOMAIN session[s].earlier :
            \E j \in DOMAIN session[s].history :
              session[s].history[j] = session[s].earlier[i])

\* C16 witness: a session that began after a, b and a again had been
\* accepted, the first of them while another session was open as well, and
\* whose recall list holds a and b.
C16_Witness ==
  \E s \in 1..MaxSessions :
    /\ session[s].earlier = << <<"a">>, <<"b">>, <<"a">> >>
    /\ Reverse(session[s].history) = << <<"b">>, <<"a">> >>
    /\ \E t \in 1..MaxSessions : t # s /\ session[t].historyFd = "open"

\* C18: a session whose REPL has emitted exit has closed its history
\* descriptor once, one that has not has not closed it; and the history
\* file is written only in a step in which a session that has not exited
\* accepts a line, never by a line event after the exit.
C18_Sentinel ==
  /\ [](\A s \in 1..MaxSessions :
          session[s].closes = IF session[s].exited THEN 1 ELSE 0)
  /\ [][historyFile' # historyFile => accepted' # accepted]_vars

\* C18 witness: a session that has exited, has closed its descriptor once,
\* and has had a line event since, the file being exactly what was accepted
\* before exits.
C18_Witness ==
  \E s \in 1..MaxSessions :
    /\ session[s].exited
    /\ session[s].late
    /\ session[s].closes = 1
    /\ accepted # <<>>
    /\ historyFile = LinesBytes(accepted)

\* C17: once the handshake callback of a connection has run, with a header
\* or with an error, the deadline timer of that connection does not fire;
\* the timer of an interactive session is cleared.
C17_DeadlineCancelled ==
  /\ [][\A c \in Conns :
          (conn[c].callbacks >= 1 /\ conn'[c].timeout = "fired") =>
            conn[c].timeout = "fired"]_vars
  /\ [](\A c \in Conns : conn[c].interactive => conn[c].timeout = "cleared")

\* C17 witness: an interactive session still open and never written to by
\* this file, while the deadline of a connection accepted after it has
\* already fired.
C17_Witness ==
  \E c \in Conns, d \in Conns :
    /\ c < d
    /\ conn[c].interactive
    /\ conn[c].sock = "open"
    /\ conn[c].written = <<>>
    /\ conn[d].timeout = "fired"

\* C19 as claimed: whenever __ is defined on the shared context, reading it
\* gives the value of the most recent successful evaluation of an
\* interactive session, or the value most recently assigned to __.
C19_LastResult ==
  context.binding # 0 => conn[context.binding].last = context.recent

\* Some Server.listen has removed the stale record.
StaleRemoved == \E s \in Servers : server[s].at \notin {"new", "unlinking"}

\* C20: once a Server.listen has removed the stale record, the discovery
\* file is absent, or the disabled record, or the enabled record of a Server
\* of this process that is listening on the record's port; a Server whose
\* bind failed has no record in the file.
C20_RecordValid ==
  StaleRemoved =>
    \/ infoFile = Absent
    \/ infoFile = DisabledRecord
    \/ \E s \in Servers : infoFile = EnabledRecord(s) /\ server[s].at = "listening"

\* C20 witness: the file was removed, one Server failed to bind and wrote
\* nothing, and the file holds the record of the other, which listens.
C20_Witness ==
  \E s \in Servers, t \in Servers :
    /\ server[s].at = "failed"
    /\ server[t].at = "listening"
    /\ infoFile = EnabledRecord(t)

====
